---- MODULE Spec2Model ----
(***************************************************************************)
(* decaf377-rdsa: RedDSA signatures over a prime-order group, with single  *)
(* and batch verification and SpendAuth key randomization.                 *)
(*                                                                         *)
(* The decaf377 group is a cyclic group of prime order, so every element   *)
(* is k*G for exactly one k in the scalar field Fr.  The model keeps the   *)
(* same structure at a small prime order: a scalar is a number modulo      *)
(* FrModulus and a group element is written as the multiple of the         *)
(* generator it is.  Byte strings are sequences of small "bytes"; the      *)
(* scalar and point encodings are fixed-width byte strings of which only   *)
(* some are canonical, as in the library.                                  *)
(***************************************************************************)
EXTENDS Integers, Sequences, FiniteSets, TLC

(***************************************************************************)
(* Scaled program constants.                                               *)
(***************************************************************************)
\* Order of the scalar field Fr and of the group (a prime).
FrModulus == 5
\* Number of values of one byte (u8).
ByteRange == 3
\* Length of a scalar or point encoding ([u8; 32]).
EncLen == 2
\* Length of the RNG output reduced into a signing scalar ([0; 64]).
WideLen == 3
\* Length of bonus_randomness ([0u8; 48]).
BonusLen == 1
\* Width of one RNG word used for a blinding scalar (next_u64).
WordBits == 1
\* Size of the digest space of the hash (hash_length(64)).
DigestRange == 61
\* Hasher state after personalisation with b"decaf377-rdsa---".
HStarPersonal == 17
\* Discrete logarithm of hash_to_group(b"decaf377-rdsa-binding").
BindingLog == 3
\* The byte the message tweak appends (msg.push(90)).
PushedByte == 2

(***************************************************************************)
(* Bounds of the exploration.                                              *)
(***************************************************************************)
MaxMsgLen == 1
MaxRandomize == 2
MaxTweaks == 2
MaxQueue == 2
\* How much longer than a signature a byte slice may be.
MaxSliceExtra == 1
\* bytes given to one hasher, and its update and finalize calls
MaxAbsorbed == 3
MaxUpdates == 3
MaxFinalizes == 2

Byte == 0 .. (ByteRange - 1)
Fr == 0 .. (FrModulus - 1)
Element == 0 .. (FrModulus - 1)
Domains == {"SpendAuth", "Binding"}

RECURSIVE Pow(_, _)
Pow(b, n) == IF n = 0 THEN 1 ELSE b * Pow(b, n - 1)

BytesOfLen(n) == [1 .. n -> Byte]
Bytes32 == BytesOfLen(EncLen)
Bytes64 == BytesOfLen(2 * EncLen)
Zeros(n) == [i \in 1 .. n |-> 0]

(***************************************************************************)
(* decaf377::Fr                                                            *)
(***************************************************************************)
FrAdd(a, b) == (a + b) % FrModulus
FrMul(a, b) == (a * b) % FrModulus
FrNeg(a) == (FrModulus - a) % FrModulus
FrSub(a, b) == FrAdd(a, FrNeg(b))

\* Value of a little-endian byte string.
RECURSIVE LEValue(_)
LEValue(bytes) ==
    IF Len(bytes) = 0 THEN 0 ELSE Head(bytes) + ByteRange * LEValue(Tail(bytes))

\* Fr::from_le_bytes_mod_order
from_le_bytes_mod_order(bytes) == LEValue(bytes) % FrModulus

\* Fr::to_bytes: the canonical little-endian encoding.
to_bytes(s) == [i \in 1 .. EncLen |-> (s \div Pow(ByteRange, i - 1)) % ByteRange]

\* Fr::from_bytes_checked / Fr::from_bytes: reject values >= the modulus.
from_bytes_checked(bytes) ==
    IF LEValue(bytes) < FrModulus
    THEN [ok |-> TRUE, val |-> LEValue(bytes)]
    ELSE [ok |-> FALSE, val |-> 0]

(***************************************************************************)
(* decaf377::Element                                                       *)
(***************************************************************************)
Identity == 0
ElAdd(p, q) == (p + q) % FrModulus
ElNeg(p) == (FrModulus - p) % FrModulus
ElSub(p, q) == ElAdd(p, ElNeg(q))
ElMul(p, s) == (p * s) % FrModulus
is_identity(p) == p = Identity

\* Element::compress / vartime_compress: only the even values below
\* 2 * FrModulus are encodings of a point; the identity encodes as zeros.
compress(p) == [i \in 1 .. EncLen |-> ((2 * p) \div Pow(ByteRange, i - 1)) % ByteRange]

\* Encoding::decompress / vartime_decompress
decompress(bytes) ==
    LET v == LEValue(bytes)
    IN  IF v % 2 = 0 /\ v < 2 * FrModulus
        THEN [ok |-> TRUE, val |-> v \div 2]
        ELSE [ok |-> FALSE, val |-> Identity]

\* Element::vartime_multiscalar_mul: the sum of scalars[i] * points[i].
RECURSIVE vartime_multiscalar_mul(_, _)
vartime_multiscalar_mul(scalars, points) ==
    IF Len(scalars) = 0 \/ Len(points) = 0
    THEN Identity
    ELSE ElAdd(ElMul(Head(points), Head(scalars)),
               vartime_multiscalar_mul(Tail(scalars), Tail(points)))

(***************************************************************************)
(* domain.rs                                                               *)
(***************************************************************************)
basepoint_shared(D) == 1

basepoint(D) == IF D = "SpendAuth" THEN 1 ELSE BindingLog

(***************************************************************************)
(* hash.rs                                                                 *)
(***************************************************************************)
HStarDefault == HStarPersonal

RECURSIVE HStarUpdate(_, _)
HStarUpdate(state, data) ==
    IF Len(data) = 0
    THEN state
    ELSE HStarUpdate((state * 5 + Head(data) + 1) % DigestRange, Tail(data))

HStarFinalize(state) == state % FrModulus

(***************************************************************************)
(* signature.rs                                                            *)
(***************************************************************************)
\* A Signature<D> is its bytes field; the marker holds no data and the
\* domain is carried by whoever holds the signature.
from_parts(r_bytes, s_bytes) == r_bytes \o s_bytes
r_bytes(sig) == SubSeq(sig, 1, EncLen)
s_bytes_overlapping(sig) == SubSeq(sig, EncLen, 2 * EncLen - 1)
s_bytes(sig) == SubSeq(sig, EncLen + 1, 2 * EncLen)

\* From<[u8; 64]> for Signature<D>
SignatureFrom(bytes) == bytes

\* Signature::to_bytes and From<Signature<D>> for [u8; 64]
SignatureToBytes(sig) == sig

(***************************************************************************)
(* verification_key.rs                                                     *)
(***************************************************************************)
Ok == "Ok"
InvalidSignature == "InvalidSignature"
MalformedVerificationKey == "MalformedVerificationKey"
MalformedSigningKey == "MalformedSigningKey"

\* An Error value with its fields; only WrongSliceLength has any.
ErrorOf(kind) == [kind |-> kind, expected |-> 0, found |-> 0]
WrongSliceLength(expected, found) ==
    [kind |-> "WrongSliceLength", expected |-> expected, found |-> found]

\* bytesN.copy_from_slice(bytes), called only when the lengths agree.
copy_from_slice(n, bytes) == [i \in 1 .. n |-> bytes[i]]

NoKey == [point |-> Identity, bytes |-> Zeros(EncLen)]

\* TryFrom<VerificationKeyBytes<D>> for VerificationKey<D>
VerificationKeyTryFromWrongError(bytes) ==
    LET d == decompress(bytes)
    IN  IF d.ok
        THEN [ok |-> TRUE, err |-> Ok, val |-> [point |-> d.val, bytes |-> bytes]]
        ELSE [ok |-> FALSE, err |-> InvalidSignature, val |-> NoKey]

VerificationKeyTryFromNonIdentity(bytes) ==
    LET d == decompress(bytes)
    IN  IF d.ok /\ ~is_identity(d.val)
        THEN [ok |-> TRUE, err |-> Ok, val |-> [point |-> d.val, bytes |-> bytes]]
        ELSE [ok |-> FALSE, err |-> MalformedVerificationKey, val |-> NoKey]

VerificationKeyTryFromNonCanonical(bytes) ==
    [ok |-> TRUE, err |-> Ok,
     val |-> [point |-> (LEValue(bytes) \div 2) % FrModulus, bytes |-> bytes]]

VerificationKeyTryFrom(bytes) ==
    LET d == decompress(bytes)
    IN  IF d.ok
        THEN [ok |-> TRUE, err |-> Ok, val |-> [point |-> d.val, bytes |-> bytes]]
        ELSE [ok |-> FALSE, err |-> MalformedVerificationKey, val |-> NoKey]

\* From<[u8; 32]> for VerificationKeyBytes<D>: the bytes are kept as they
\* are, nothing is decoded.  A VerificationKeyBytes<D> is its bytes field.
VerificationKeyBytesFrom(bytes) == bytes

\* From<VerificationKeyBytes<D>> for [u8; 32]
VerificationKeyBytesInto(refined) == refined

\* TryFrom<[u8; 32]> for VerificationKey<D>
VerificationKeyTryFromArray(bytes) ==
    VerificationKeyTryFrom(VerificationKeyBytesFrom(bytes))

\* VerificationKey::to_bytes and From<VerificationKey<D>> for [u8; 32]
VerificationKeyToBytes(vk) == VerificationKeyBytesInto(vk.bytes)

\* TryFrom<&[u8]> for VerificationKeyBytes<D>
VerificationKeyBytesTryFromSlice(bytes) ==
    IF Len(bytes) = EncLen
    THEN [ok |-> TRUE, err |-> ErrorOf(Ok),
          val |-> VerificationKeyBytesFrom(copy_from_slice(EncLen, bytes))]
    ELSE [ok |-> FALSE, err |-> WrongSliceLength(EncLen, Len(bytes)),
          val |-> Zeros(EncLen)]

\* TryFrom<&[u8]> for VerificationKey<D>
VerificationKeyTryFromSlice(bytes) ==
    LET b == VerificationKeyBytesTryFromSlice(bytes)
        r == VerificationKeyTryFrom(b.val)
    IN  IF ~b.ok THEN [ok |-> FALSE, err |-> b.err, val |-> NoKey]
        ELSE [ok |-> r.ok, err |-> ErrorOf(r.err), val |-> r.val]

\* TryFrom<&[u8]> for Signature<D>
SignatureTryFromSliceExpectedKeyLength(bytes) ==
    IF Len(bytes) = 2 * EncLen
    THEN [ok |-> TRUE, err |-> ErrorOf(Ok),
          val |-> SignatureFrom(copy_from_slice(2 * EncLen, bytes))]
    ELSE [ok |-> FALSE, err |-> WrongSliceLength(EncLen, Len(bytes)),
          val |-> Zeros(2 * EncLen)]

SignatureTryFromSlice(bytes) ==
    IF Len(bytes) = 2 * EncLen
    THEN [ok |-> TRUE, err |-> ErrorOf(Ok),
          val |-> SignatureFrom(copy_from_slice(2 * EncLen, bytes))]
    ELSE [ok |-> FALSE, err |-> WrongSliceLength(2 * EncLen, Len(bytes)),
          val |-> Zeros(2 * EncLen)]

\* serde for VerificationKeyBytes<D> (derived): the fields in order, of which
\* only bytes holds data.
VerificationKeyBytesDeserialize(data) ==
    VerificationKeyBytesFrom(copy_from_slice(EncLen, data))
VerificationKeyBytesSerialize(refined) == VerificationKeyBytesInto(refined)

\* serde for VerificationKey<D>: try_from / into VerificationKeyBytes<D>.
VerificationKeyDeserialize(data) ==
    VerificationKeyTryFrom(VerificationKeyBytesDeserialize(data))
VerificationKeySerialize(vk) == VerificationKeyBytesSerialize(vk.bytes)

\* Hash for [u8; 32], as self.bytes.hash(state) feeds the hasher: the length
\* of the array, then its bytes.
ArrayHash(bytes) == <<Len(bytes)>> \o bytes

\* Hash for PhantomData<D>, as self._marker.hash(state) feeds the hasher:
\* a PhantomData has no data and writes nothing.
PhantomDataHash(D) == <<>>

\* Ord for [u8; 32]: lexicographic; -1, 0, 1 are Less, Equal, Greater.
ArrayCmp(a, b) ==
    LET diff == {i \in 1 .. Len(a) : a[i] # b[i]}
    IN  IF diff = {} THEN 0
        ELSE LET i == CHOOSE j \in diff : \A k \in diff : j <= k
             IN  IF a[i] < b[i] THEN -1 ELSE 1

\* Hash, PartialEq and Ord for VerificationKeyBytes<D>; what the hasher is
\* fed is the sequence of values written to it.
VerificationKeyBytesHash(D, refined) == ArrayHash(refined) \o PhantomDataHash(D)
VerificationKeyBytesEq(a, b) == a = b
VerificationKeyBytesCmp(a, b) == ArrayCmp(a, b)

\* Hash, PartialEq and Ord for VerificationKey<D>: those of its bytes field.
VerificationKeyHash(D, vk) == VerificationKeyBytesHash(D, vk.bytes)
VerificationKeyEq(a, b) == VerificationKeyBytesEq(a.bytes, b.bytes)
VerificationKeyCmp(a, b) == VerificationKeyBytesCmp(a.bytes, b.bytes)

\* VerificationKey::from(&Fr)
VerificationKeyFromNoScalar(D, s) ==
    [point |-> basepoint(D), bytes |-> compress(basepoint(D))]

VerificationKeyFrom(D, s) ==
    LET point == ElMul(basepoint(D), s)
    IN  [point |-> point, bytes |-> compress(point)]

\* VerificationKey<SpendAuth>::randomize
VerificationKeyRandomizeStaleBytes(vk, randomizer) ==
    [point |-> ElAdd(vk.point, ElMul(basepoint("SpendAuth"), randomizer)),
     bytes |-> vk.bytes]

VerificationKeyRandomizeBindingBase(vk, randomizer) ==
    LET point == ElAdd(vk.point, ElMul(basepoint("Binding"), randomizer))
    IN  [point |-> point, bytes |-> compress(point)]

VerificationKeyRandomize(vk, randomizer) ==
    LET point == ElAdd(vk.point, ElMul(basepoint("SpendAuth"), randomizer))
    IN  [point |-> point, bytes |-> compress(point)]

\* VerificationKey::verify_prehashed
verify_prehashed_reduced_s(D, vk, sig, c) ==
    LET R == decompress(r_bytes(sig))
        s == from_le_bytes_mod_order(s_bytes(sig))
        sB == ElMul(basepoint(D), s)
        cA == ElMul(vk.point, c)
        check == ElSub(ElSub(sB, cA), R.val)
    IN  IF ~R.ok THEN InvalidSignature
        ELSE IF is_identity(check) THEN Ok ELSE InvalidSignature

verify_prehashed_unchecked_R(D, vk, sig, c) ==
    LET R == decompress(r_bytes(sig))
        s == from_bytes_checked(s_bytes(sig))
        sB == ElMul(basepoint(D), s.val)
        cA == ElMul(vk.point, c)
        check == ElSub(ElSub(sB, cA), R.val)
    IN  IF ~s.ok THEN InvalidSignature
        ELSE IF is_identity(check) THEN Ok ELSE InvalidSignature

verify_prehashed(D, vk, sig, c) ==
    LET R == decompress(r_bytes(sig))
        s == from_bytes_checked(s_bytes(sig))
        sB == ElMul(basepoint(D), s.val)
        cA == ElMul(vk.point, c)
        check == ElSub(ElSub(sB, cA), R.val)
    IN  IF ~R.ok THEN InvalidSignature
        ELSE IF ~s.ok THEN InvalidSignature
        ELSE IF is_identity(check) THEN Ok ELSE InvalidSignature

\* The challenge c = HStar(R_bytes || vk_bytes || msg).
Challenge(rb, vkb, msg) ==
    HStarFinalize(HStarUpdate(HStarUpdate(HStarUpdate(HStarDefault, rb), vkb), msg))

\* VerificationKey::verify
verify_without_msg(D, vk, msg, sig) ==
    verify_prehashed(D, vk, sig, Challenge(r_bytes(sig), vk.bytes, <<>>))

verify(D, vk, msg, sig) ==
    verify_prehashed(D, vk, sig, Challenge(r_bytes(sig), vk.bytes, msg))

(***************************************************************************)
(* signing_key.rs                                                          *)
(***************************************************************************)
\* SigningKey::new_from_field
new_from_field(D, s) == [dom |-> D, sk |-> s, pk |-> VerificationKeyFrom(D, s)]

\* SigningKey::new: 64 bytes of RNG output reduced modulo the order.
SigningKeyNew(D, rngBytes) == new_from_field(D, from_le_bytes_mod_order(rngBytes))

\* TryFrom<[u8; 32]> for SigningKey<D>
SigningKeyTryFromReduced(D, bytes) ==
    [ok |-> TRUE, err |-> Ok, val |-> new_from_field(D, from_le_bytes_mod_order(bytes))]

SigningKeyTryFrom(D, bytes) ==
    LET s == from_bytes_checked(bytes)
    IN  IF s.ok
        THEN [ok |-> TRUE, err |-> Ok, val |-> new_from_field(D, s.val)]
        ELSE [ok |-> FALSE, err |-> MalformedSigningKey, val |-> new_from_field(D, 0)]

\* TryFrom<&[u8]> for SigningKey<D>
SigningKeyTryFromSlice(D, bytes) ==
    IF Len(bytes) = EncLen
    THEN LET r == SigningKeyTryFrom(D, copy_from_slice(EncLen, bytes))
         IN  [ok |-> r.ok, err |-> ErrorOf(r.err), val |-> r.val]
    ELSE [ok |-> FALSE, err |-> WrongSliceLength(EncLen, Len(bytes)),
          val |-> new_from_field(D, 0)]

\* From<Fr> for SigningKey<D>
SigningKeyFromFr(D, s) == new_from_field(D, s)

\* From<SigningKey<D>> for [u8; 32] and SigningKey::to_bytes
SigningKeyToBytes(key) == to_bytes(key.sk)

\* serde for SigningKey<D>: try_from / into SerdeHelper([u8; 32]).
SigningKeyDeserialize(D, data) == SigningKeyTryFrom(D, copy_from_slice(EncLen, data))
SigningKeySerialize(key) == SigningKeyToBytes(key)

\* SigningKey<SpendAuth>::randomize
SigningKeyRandomize(key, randomizer) ==
    LET s == FrAdd(key.sk, randomizer)
    IN  [dom |-> key.dom, sk |-> s, pk |-> VerificationKeyFrom(key.dom, s)]

\* SigningKey::sign_inner
sign_inner_wrong_challenge(key, bonus_randomness, msg) ==
    LET nonce == HStarFinalize(HStarUpdate(HStarUpdate(HStarUpdate(HStarUpdate(
                     HStarDefault, to_bytes(key.sk)), bonus_randomness),
                     key.pk.bytes), msg))
        rb == compress(ElMul(basepoint(key.dom), nonce))
        c == HStarFinalize(HStarUpdate(HStarUpdate(HStarUpdate(
                     HStarDefault, key.pk.bytes), rb), msg))
        sb == to_bytes(FrAdd(nonce, FrMul(c, key.sk)))
    IN  from_parts(rb, sb)

sign_inner_no_bonus(key, bonus_randomness, msg) ==
    LET nonce == HStarFinalize(HStarUpdate(HStarUpdate(HStarUpdate(
                     HStarDefault, to_bytes(key.sk)), key.pk.bytes), msg))
        rb == compress(ElMul(basepoint(key.dom), nonce))
        c == HStarFinalize(HStarUpdate(HStarUpdate(HStarUpdate(
                     HStarDefault, rb), key.pk.bytes), msg))
        sb == to_bytes(FrAdd(nonce, FrMul(c, key.sk)))
    IN  from_parts(rb, sb)

sign_inner(key, bonus_randomness, msg) ==
    LET nonce == HStarFinalize(HStarUpdate(HStarUpdate(HStarUpdate(HStarUpdate(
                     HStarDefault, to_bytes(key.sk)), bonus_randomness),
                     key.pk.bytes), msg))
        rb == compress(ElMul(basepoint(key.dom), nonce))
        c == HStarFinalize(HStarUpdate(HStarUpdate(HStarUpdate(
                     HStarDefault, rb), key.pk.bytes), msg))
        sb == to_bytes(FrAdd(nonce, FrMul(c, key.sk)))
    IN  from_parts(rb, sb)

\* SigningKey::sign: bonus_randomness is filled from the RNG.
sign(key, rngBytes, msg) == sign_inner(key, rngBytes, msg)

\* SigningKey::sign_deterministic: bonus_randomness is all zeros.
sign_deterministic(key, msg) == sign_inner(key, Zeros(BonusLen), msg)

(***************************************************************************)
(* batch.rs                                                                *)
(***************************************************************************)
Word == 0 .. (Pow(2, WordBits) - 1)

\* gen_128_bits: lo + (hi << 64) in u128, lifted into Fr.
gen_128_bits_swapped(lo, hi) ==
    ((hi + ((lo * Pow(2, WordBits)) % Pow(2, 2 * WordBits))) % Pow(2, 2 * WordBits))
        % FrModulus

gen_128_bits(lo, hi) ==
    ((lo + ((hi * Pow(2, WordBits)) % Pow(2, 2 * WordBits))) % Pow(2, 2 * WordBits))
        % FrModulus

\* From<(VerificationKeyBytes<D>, Signature<D>, &M)> for Item
ItemFrom(D, vk_bytes, sig, msg) ==
    [dom |-> D, vk_bytes |-> vk_bytes, sig |-> sig,
     c |-> HStarFinalize(HStarUpdate(HStarUpdate(HStarUpdate(
               HStarDefault, r_bytes(sig)), vk_bytes), msg))]

\* Item::verify_single
verify_single_rehashed(item) ==
    LET t == VerificationKeyTryFrom(item.vk_bytes)
    IN  IF t.ok
        THEN verify_prehashed(item.dom, t.val, item.sig,
                              Challenge(r_bytes(item.sig), item.vk_bytes, <<>>))
        ELSE t.err

verify_single(item) ==
    LET t == VerificationKeyTryFrom(item.vk_bytes)
    IN  IF t.ok THEN verify_prehashed(item.dom, t.val, item.sig, item.c) ELSE t.err

\* Verifier::verify before the first item.
VerifyStartOne ==
    [err |-> Ok, VK_coeffs |-> <<>>, VKs |-> <<>>, R_coeffs |-> <<>>, Rs |-> <<>>,
     P_spendauth_coeff |-> 1, P_binding_coeff |-> 0, zs |-> <<>>,
     rng |-> <<>>]

VerifyStart ==
    [err |-> Ok, VK_coeffs |-> <<>>, VKs |-> <<>>, R_coeffs |-> <<>>, Rs |-> <<>>,
     P_spendauth_coeff |-> 0, P_binding_coeff |-> 0, zs |-> <<>>,
     rng |-> <<>>]

\* Verifier::verify, one item of the loop: decode s, R and the key, then
\* draw z and extend the coefficient and point vectors.
VerifyItemOneAccumulator(acc, item, lo, hi) ==
    LET s == from_bytes_checked(s_bytes(item.sig))
        R == decompress(r_bytes(item.sig))
        VK == VerificationKeyTryFrom(item.vk_bytes)
        z == gen_128_bits(lo, hi)
        P_coeff == FrMul(z, s.val)
    IN  IF ~s.ok THEN [acc EXCEPT !.err = InvalidSignature]
        ELSE IF ~R.ok THEN [acc EXCEPT !.err = InvalidSignature]
        ELSE IF ~VK.ok THEN [acc EXCEPT !.err = VK.err]
        ELSE [acc EXCEPT
                !.P_spendauth_coeff = FrSub(acc.P_spendauth_coeff, P_coeff),
                !.R_coeffs = Append(acc.R_coeffs, z),
                !.Rs = Append(acc.Rs, R.val),
                !.VK_coeffs = Append(acc.VK_coeffs, FrMul(z, item.c)),
                !.VKs = Append(acc.VKs, VK.val.point),
                !.zs = Append(acc.zs, z),
                !.rng = acc.rng \o <<lo, hi>>]

VerifyItemSignSlip(acc, item, lo, hi) ==
    LET s == from_bytes_checked(s_bytes(item.sig))
        R == decompress(r_bytes(item.sig))
        VK == VerificationKeyTryFrom(item.vk_bytes)
        z == gen_128_bits(lo, hi)
        P_coeff == FrMul(z, s.val)
    IN  IF ~s.ok THEN [acc EXCEPT !.err = InvalidSignature]
        ELSE IF ~R.ok THEN [acc EXCEPT !.err = InvalidSignature]
        ELSE IF ~VK.ok THEN [acc EXCEPT !.err = VK.err]
        ELSE [acc EXCEPT
                !.P_spendauth_coeff =
                    IF item.dom = "SpendAuth"
                    THEN FrAdd(acc.P_spendauth_coeff, P_coeff)
                    ELSE acc.P_spendauth_coeff,
                !.P_binding_coeff =
                    IF item.dom = "Binding"
                    THEN FrSub(acc.P_binding_coeff, P_coeff)
                    ELSE acc.P_binding_coeff,
                !.R_coeffs = Append(acc.R_coeffs, z),
                !.Rs = Append(acc.Rs, R.val),
                !.VK_coeffs = Append(acc.VK_coeffs, FrMul(z, item.c)),
                !.VKs = Append(acc.VKs, VK.val.point),
                !.zs = Append(acc.zs, z),
                !.rng = acc.rng \o <<lo, hi>>]

VerifyItemUnblindedKey(acc, item, lo, hi) ==
    LET s == from_bytes_checked(s_bytes(item.sig))
        R == decompress(r_bytes(item.sig))
        VK == VerificationKeyTryFrom(item.vk_bytes)
        z == gen_128_bits(lo, hi)
        P_coeff == FrMul(z, s.val)
    IN  IF ~s.ok THEN [acc EXCEPT !.err = InvalidSignature]
        ELSE IF ~R.ok THEN [acc EXCEPT !.err = InvalidSignature]
        ELSE IF ~VK.ok THEN [acc EXCEPT !.err = VK.err]
        ELSE [acc EXCEPT
                !.P_spendauth_coeff =
                    IF item.dom = "SpendAuth"
                    THEN FrSub(acc.P_spendauth_coeff, P_coeff)
                    ELSE acc.P_spendauth_coeff,
                !.P_binding_coeff =
                    IF item.dom = "Binding"
                    THEN FrSub(acc.P_binding_coeff, P_coeff)
                    ELSE acc.P_binding_coeff,
                !.R_coeffs = Append(acc.R_coeffs, z),
                !.Rs = Append(acc.Rs, R.val),
                !.VK_coeffs = Append(acc.VK_coeffs, item.c),
                !.VKs = Append(acc.VKs, VK.val.point),
                !.zs = Append(acc.zs, z),
                !.rng = acc.rng \o <<lo, hi>>]

VerifyItemKeyFirst(acc, item, lo, hi) ==
    LET s == from_bytes_checked(s_bytes(item.sig))
        R == decompress(r_bytes(item.sig))
        VK == VerificationKeyTryFrom(item.vk_bytes)
        z == gen_128_bits(lo, hi)
        P_coeff == FrMul(z, s.val)
    IN  IF ~VK.ok THEN [acc EXCEPT !.err = VK.err]
        ELSE IF ~s.ok THEN [acc EXCEPT !.err = InvalidSignature]
        ELSE IF ~R.ok THEN [acc EXCEPT !.err = InvalidSignature]
        ELSE [acc EXCEPT
                !.P_spendauth_coeff =
                    IF item.dom = "SpendAuth"
                    THEN FrSub(acc.P_spendauth_coeff, P_coeff)
                    ELSE acc.P_spendauth_coeff,
                !.P_binding_coeff =
                    IF item.dom = "Binding"
                    THEN FrSub(acc.P_binding_coeff, P_coeff)
                    ELSE acc.P_binding_coeff,
                !.R_coeffs = Append(acc.R_coeffs, z),
                !.Rs = Append(acc.Rs, R.val),
                !.VK_coeffs = Append(acc.VK_coeffs, FrMul(z, item.c)),
                !.VKs = Append(acc.VKs, VK.val.point),
                !.zs = Append(acc.zs, z),
                !.rng = acc.rng \o <<lo, hi>>]

VerifyItem(acc, item, lo, hi) ==
    LET s == from_bytes_checked(s_bytes(item.sig))
        R == decompress(r_bytes(item.sig))
        VK == VerificationKeyTryFrom(item.vk_bytes)
        z == gen_128_bits(lo, hi)
        P_coeff == FrMul(z, s.val)
    IN  IF ~s.ok THEN [acc EXCEPT !.err = InvalidSignature]
        ELSE IF ~R.ok THEN [acc EXCEPT !.err = InvalidSignature]
        ELSE IF ~VK.ok THEN [acc EXCEPT !.err = VK.err]
        ELSE [acc EXCEPT
                !.P_spendauth_coeff =
                    IF item.dom = "SpendAuth"
                    THEN FrSub(acc.P_spendauth_coeff, P_coeff)
                    ELSE acc.P_spendauth_coeff,
                !.P_binding_coeff =
                    IF item.dom = "Binding"
                    THEN FrSub(acc.P_binding_coeff, P_coeff)
                    ELSE acc.P_binding_coeff,
                !.R_coeffs = Append(acc.R_coeffs, z),
                !.Rs = Append(acc.Rs, R.val),
                !.VK_coeffs = Append(acc.VK_coeffs, FrMul(z, item.c)),
                !.VKs = Append(acc.VKs, VK.val.point),
                !.zs = Append(acc.zs, z),
                !.rng = acc.rng \o <<lo, hi>>]

\* The loop over self.signatures; it returns at the first error, and the
\* RNG is read only for the items that decoded.
RECURSIVE VerifyLoop(_, _, _)
VerifyLoop(acc, items, words) ==
    IF Len(items) = 0 \/ acc.err # Ok
    THEN acc
    ELSE LET next == VerifyItem(acc, Head(items), words[1], words[2])
         IN  VerifyLoop(next, Tail(items),
                        IF next.err = Ok THEN SubSeq(words, 3, Len(words)) ELSE words)

\* The value tested against the identity.
VerifyCheckMisaligned(acc) ==
    LET scalars == <<acc.P_spendauth_coeff, acc.P_binding_coeff>>
                       \o acc.VK_coeffs \o acc.R_coeffs
        points == <<basepoint("SpendAuth"), basepoint("Binding")>>
                       \o acc.Rs \o acc.VKs
    IN  vartime_multiscalar_mul(scalars, points)

\* scalars and points, as chained after the loop.
VerifyScalars(acc) ==
    <<acc.P_spendauth_coeff, acc.P_binding_coeff>> \o acc.VK_coeffs \o acc.R_coeffs
VerifyPoints(acc) ==
    <<basepoint("SpendAuth"), basepoint("Binding")>> \o acc.VKs \o acc.Rs

VerifyCheck(acc) ==
    vartime_multiscalar_mul(VerifyScalars(acc), VerifyPoints(acc))

\* Verifier::verify: the Result and the blinding scalars it drew.
VerifierVerify(items, words) ==
    LET acc == VerifyLoop(VerifyStart, items, words)
    IN  [result |-> IF acc.err # Ok THEN acc.err
                    ELSE IF is_identity(VerifyCheck(acc)) THEN Ok
                    ELSE InvalidSignature,
         zs |-> acc.zs,
         rng |-> acc.rng,
         returned_early |-> acc.err # Ok,
         scalars |-> VerifyScalars(acc),
         points |-> VerifyPoints(acc),
         check |-> VerifyCheck(acc)]

(***************************************************************************)
(* State.                                                                  *)
(*                                                                         *)
(* sk, pk       a signing key and the verification key taken from it, as   *)
(*              a caller holds them (the randomization test keeps both     *)
(*              and randomizes each)                                       *)
(* nrand        number of randomizations applied so far                    *)
(* cas          the SignatureCase under test: message, signature,          *)
(*              verification key bytes, expected validity and domain tag   *)
(* orig         the case as it was created, before any tweak               *)
(* ntweaks      number of tweaks applied to cas                            *)
(* result       the Result of the last conversion or verification          *)
(* signatures   Verifier.signatures, the queue of batch items              *)
(* singles      for each queued item, the result of single verification    *)
(*              of the triple it was built from                            *)
(* zs           the blinding scalars drawn by the last batch verification  *)
(* rng          the words the last batch verification took from the RNG,   *)
(*              in the order it took them                                  *)
(* msm          the scalars and points the last batch verification handed  *)
(*              to the multiscalar multiplication, and its value           *)
(* hstar        a hasher: its state, the data given to it so far, the      *)
(*              numbers of update and finalize calls, and what the last    *)
(*              finalize returned (out) after which data (at)              *)
(* conv         the last conversion or signing call: its input bytes (for  *)
(*              signing, the bytes taken from the RNG), the bytes its      *)
(*              output converts back to, and its error; after a            *)
(*              comparison or hashing of keys, the values compared and     *)
(*              what each hasher was fed                                   *)
(* pc           position of the caller                                     *)
(***************************************************************************)
VARIABLES sk, pk, nrand, cas, orig, ntweaks, result, signatures, singles, zs, rng,
          msm, conv, hstar, pc

vars == <<sk, pk, nrand, cas, orig, ntweaks, result, signatures, singles, zs, rng,
          msm, conv, hstar, pc>>
keyVars == <<sk, pk, nrand>>
caseVars == <<cas, orig, ntweaks>>
batchVars == <<signatures, singles, zs, rng, msm>>

None == "none"
MsgByte == {1, PushedByte}
Msgs == UNION {[1 .. n -> MsgByte] : n \in 0 .. MaxMsgLen}

NoError == ErrorOf(Ok)
NoMsm == [scalars |-> <<>>, points |-> <<>>, check |-> Identity]
NoHStar == [state |-> HStarDefault, absorbed |-> <<>>, updates |-> 0,
            finalizes |-> 0, out |-> 0, at |-> <<>>]
NoConv == [op |-> None, dom |-> "SpendAuth", input |-> <<>>, out |-> <<>>,
           r |-> <<>>, s |-> <<>>, err |-> NoError,
           serde_ok |-> FALSE, serde_out |-> <<>>]

\* The byte slices handed to the slice conversions.
Slices == UNION {BytesOfLen(n) : n \in 0 .. (2 * EncLen + MaxSliceExtra)}

NoSigningKey == new_from_field("SpendAuth", 0)
NoCase == [dom |-> "SpendAuth", msg |-> <<>>, sig |-> Zeros(2 * EncLen),
           pk_bytes |-> Zeros(EncLen), is_valid |-> FALSE]

(***************************************************************************)
(* tests/proptests.rs: SignatureCase                                       *)
(***************************************************************************)
\* SignatureCase::new, after the key was made: sign and keep the bytes.
SignatureCaseNew(key, rngBytes, msg) ==
    [dom |-> key.dom, msg |-> msg, sig |-> sign(key, rngBytes, msg),
     pk_bytes |-> key.pk.bytes, is_valid |-> TRUE]

\* VerificationKey::try_from(pk_bytes).and_then(|pk| pk.verify(&msg, &sig))
VerifyBytes(D, pk_bytes, msg, sig) ==
    LET t == VerificationKeyTryFrom(pk_bytes)
    IN  IF t.ok THEN verify(D, t.val, msg, sig) ELSE t.err

\* SignatureCase::check, as the Result it compares with is_valid.
CaseResult(c) == VerifyBytes(c.dom, c.pk_bytes, c.msg, c.sig)

(***************************************************************************)
(* Keys, signing and checking.                                             *)
(***************************************************************************)
Init ==
    /\ sk = NoSigningKey
    /\ pk = NoKey
    /\ nrand = 0
    /\ cas = NoCase
    /\ orig = NoCase
    /\ ntweaks = 0
    /\ result = None
    /\ signatures = <<>>
    /\ singles = <<>>
    /\ zs = <<>>
    /\ rng = <<>>
    /\ msm = NoMsm
    /\ conv = NoConv
    /\ hstar = NoHStar
    /\ pc = "start"

\* SigningKey::new(rng), then VerificationKey::from(&sk).
New ==
    /\ pc = "start"
    /\ \E D \in Domains, rngBytes \in BytesOfLen(WideLen) :
          /\ sk' = SigningKeyNew(D, rngBytes)
          /\ pk' = sk'.pk
    /\ pc' = "keyed"
    /\ result' = Ok
    /\ UNCHANGED <<conv, hstar, nrand, caseVars, batchVars>>

\* SigningKey::try_from([u8; 32]), then VerificationKey::from(&sk).
TryFromBytes ==
    /\ pc = "start"
    /\ \E D \in Domains, bytes \in Bytes32 :
          LET r == SigningKeyTryFrom(D, bytes)
          IN  IF r.ok
              THEN /\ sk' = r.val
                   /\ pk' = r.val.pk
                   /\ pc' = "keyed"
                   /\ result' = Ok
              ELSE /\ result' = r.err
                   /\ UNCHANGED <<conv, hstar, sk, pk, pc>>
    /\ UNCHANGED <<conv, hstar, nrand, caseVars, batchVars>>

\* SigningKey::new_from_field(s), then VerificationKey::from(&sk).
NewFromField ==
    /\ pc = "start"
    /\ \E D \in Domains, s \in Fr :
          /\ sk' = new_from_field(D, s)
          /\ pk' = sk'.pk
    /\ pc' = "keyed"
    /\ result' = Ok
    /\ UNCHANGED <<conv, hstar, nrand, caseVars, batchVars>>

\* SigningKey::from(s), then VerificationKey::from(&sk).
FromFr ==
    /\ pc = "start"
    /\ \E D \in Domains, s \in Fr :
          /\ sk' = SigningKeyFromFr(D, s)
          /\ pk' = sk'.pk
    /\ pc' = "keyed"
    /\ result' = Ok
    /\ UNCHANGED <<conv, hstar, nrand, caseVars, batchVars>>

\* SigningKey::try_from(&[u8]), then VerificationKey::from(&sk).
TryFromSlice ==
    /\ pc = "start"
    /\ \E D \in Domains, bytes \in Slices :
          LET r == SigningKeyTryFromSlice(D, bytes)
          IN  /\ result' = r.err.kind
              /\ IF r.ok
                 THEN /\ sk' = r.val
                      /\ pk' = r.val.pk
                      /\ pc' = "keyed"
                 ELSE UNCHANGED <<sk, pk, pc>>
    /\ UNCHANGED <<conv, hstar, nrand, caseVars, batchVars>>

\* sk.randomize(&r) and pk.randomize(&r), SpendAuth only.
Randomize ==
    /\ pc = "keyed"
    /\ sk.dom = "SpendAuth"
    /\ nrand < MaxRandomize
    /\ \E r \in Fr :
          /\ sk' = SigningKeyRandomize(sk, r)
          /\ pk' = VerificationKeyRandomize(pk, r)
    /\ nrand' = nrand + 1
    /\ UNCHANGED <<conv, hstar, caseVars, result, batchVars, pc>>

\* sk.sign(rng, msg), kept with the key's bytes as a SignatureCase; conv.input
\* keeps the bytes taken from the RNG.
Sign ==
    /\ pc = "keyed"
    /\ \E rngBytes \in BytesOfLen(BonusLen), msg \in Msgs :
          /\ cas' = SignatureCaseNew(sk, rngBytes, msg)
          /\ conv' = [op |-> "sign", dom |-> sk.dom, input |-> rngBytes,
                      out |-> cas'.sig, r |-> r_bytes(cas'.sig),
                      s |-> s_bytes(cas'.sig), err |-> NoError,
                      serde_ok |-> FALSE, serde_out |-> <<>>]
    /\ orig' = cas'
    /\ pc' = "signed"
    /\ UNCHANGED <<hstar, keyVars, ntweaks, result, batchVars>>

\* sk.sign_deterministic(msg), kept with the key's bytes as a SignatureCase.
SignDeterministic ==
    /\ pc = "keyed"
    /\ \E msg \in Msgs :
          /\ cas' = [dom |-> sk.dom, msg |-> msg, sig |-> sign_deterministic(sk, msg),
                     pk_bytes |-> sk.pk.bytes, is_valid |-> TRUE]
          /\ conv' = [op |-> "sign_deterministic", dom |-> sk.dom, input |-> <<>>,
                      out |-> cas'.sig, r |-> r_bytes(cas'.sig),
                      s |-> s_bytes(cas'.sig), err |-> NoError,
                      serde_ok |-> FALSE, serde_out |-> <<>>]
    /\ orig' = cas'
    /\ pc' = "signed"
    /\ UNCHANGED <<hstar, keyVars, ntweaks, result, batchVars>>

\* A second sk.sign_deterministic(msg) with the same key and message; the
\* first signature stays in orig.
SignDeterministicAgainWithRng ==
    /\ pc = "signed"
    /\ conv.op = "sign_deterministic"
    /\ \E rngBytes \in BytesOfLen(BonusLen) :
          cas' = [cas EXCEPT !.sig = sign(sk, rngBytes, cas.msg)]
    /\ pc' = "resigned"
    /\ UNCHANGED <<conv, hstar, keyVars, orig, ntweaks, result, batchVars>>

SignDeterministicAgain ==
    /\ pc = "signed"
    /\ conv.op = "sign_deterministic"
    /\ cas' = [cas EXCEPT !.sig = sign_deterministic(sk, cas.msg)]
    /\ pc' = "resigned"
    /\ UNCHANGED <<conv, hstar, keyVars, orig, ntweaks, result, batchVars>>

\* VerificationKey::from(&sk).verify(msg, &sig)
Verify ==
    /\ pc = "signed"
    /\ result' = verify(sk.dom, sk.pk, cas.msg, cas.sig)
    /\ pc' = "verified"
    /\ UNCHANGED <<conv, hstar, keyVars, caseVars, batchVars>>

\* pk.verify(&msg, &sig) under the verification key that was randomized
\* alongside the signing key.
VerifyRandomized ==
    /\ pc = "signed"
    /\ nrand > 0
    /\ result' = verify(sk.dom, pk, cas.msg, cas.sig)
    /\ pc' = "verified_pk"
    /\ UNCHANGED <<conv, hstar, keyVars, caseVars, batchVars>>

\* SignatureCase::check
Check ==
    /\ pc = "signed"
    /\ result' = CaseResult(cas)
    /\ pc' = "checked"
    /\ UNCHANGED <<conv, hstar, keyVars, caseVars, batchVars>>

Next ==
    \/ New \/ NewFromField \/ FromFr \/ TryFromBytes \/ TryFromSlice
    \/ Randomize \/ Sign \/ SignDeterministic \/ SignDeterministicAgain
    \/ Verify \/ VerifyRandomized \/ Check

Spec == Init /\ [][Next]_vars

(***************************************************************************)
(* Single verification of arbitrary bytes.                                 *)
(***************************************************************************)
InitVerify ==
    /\ sk = NoSigningKey
    /\ pk = NoKey
    /\ nrand = 0
    /\ \E D \in Domains, pk_bytes \in Bytes32, sig \in Bytes64, msg \in Msgs :
          cas = [dom |-> D, msg |-> msg, sig |-> sig, pk_bytes |-> pk_bytes,
                 is_valid |-> FALSE]
    /\ orig = cas
    /\ ntweaks = 0
    /\ result = None
    /\ signatures = <<>>
    /\ singles = <<>>
    /\ zs = <<>>
    /\ rng = <<>>
    /\ msm = NoMsm
    /\ conv = NoConv
    /\ hstar = NoHStar
    /\ pc = "signed"

SpecVerify == InitVerify /\ [][Check]_vars

(***************************************************************************)
(* Tweaking a valid case (tests/proptests.rs: tweak_signature).            *)
(***************************************************************************)
InitTamper ==
    /\ \E D \in Domains, s \in Fr : sk = new_from_field(D, s)
    /\ pk = sk.pk
    /\ nrand = 0
    /\ \E rngBytes \in BytesOfLen(BonusLen), msg \in Msgs :
          cas = SignatureCaseNew(sk, rngBytes, msg)
    /\ orig = cas
    /\ ntweaks = 0
    /\ result = None
    /\ signatures = <<>>
    /\ singles = <<>>
    /\ zs = <<>>
    /\ rng = <<>>
    /\ msm = NoMsm
    /\ conv = NoConv
    /\ hstar = NoHStar
    /\ pc = "signed"

\* Tweak::None
TweakNone ==
    /\ pc = "signed"
    /\ ntweaks < MaxTweaks
    /\ ntweaks' = ntweaks + 1
    /\ UNCHANGED <<conv, hstar, keyVars, cas, orig, result, batchVars, pc>>

\* Tweak::ChangeMessage: msg.push(90)
ChangeMessage ==
    /\ pc = "signed"
    /\ ntweaks < MaxTweaks
    /\ cas' = [cas EXCEPT !.msg = Append(cas.msg, PushedByte), !.is_valid = FALSE]
    /\ ntweaks' = ntweaks + 1
    /\ UNCHANGED <<conv, hstar, keyVars, orig, result, batchVars, pc>>

\* Tweak::ChangePubkey: the key bytes become some other 32 bytes.
ChangePubkey ==
    /\ pc = "signed"
    /\ ntweaks < MaxTweaks
    /\ \E bytes \in Bytes32 \ {cas.pk_bytes} :
          cas' = [cas EXCEPT !.pk_bytes = bytes, !.is_valid = FALSE]
    /\ ntweaks' = ntweaks + 1
    /\ UNCHANGED <<conv, hstar, keyVars, orig, result, batchVars, pc>>

\* The signature's R half becomes some other 32 bytes.
ChangeR ==
    /\ pc = "signed"
    /\ ntweaks < MaxTweaks
    /\ \E bytes \in Bytes32 \ {r_bytes(cas.sig)} :
          cas' = [cas EXCEPT !.sig = from_parts(bytes, s_bytes(cas.sig)),
                             !.is_valid = FALSE]
    /\ ntweaks' = ntweaks + 1
    /\ UNCHANGED <<conv, hstar, keyVars, orig, result, batchVars, pc>>

\* The signature's s half becomes some other 32 bytes.
ChangeS ==
    /\ pc = "signed"
    /\ ntweaks < MaxTweaks
    /\ \E bytes \in Bytes32 \ {s_bytes(cas.sig)} :
          cas' = [cas EXCEPT !.sig = from_parts(r_bytes(cas.sig), bytes),
                             !.is_valid = FALSE]
    /\ ntweaks' = ntweaks + 1
    /\ UNCHANGED <<conv, hstar, keyVars, orig, result, batchVars, pc>>

NextTamper ==
    TweakNone \/ ChangeMessage \/ ChangePubkey \/ ChangeR \/ ChangeS \/ Check

SpecTamper == InitTamper /\ [][NextTamper]_vars

(***************************************************************************)
(* Properties.                                                             *)
(***************************************************************************)
EncodedPoints == {compress(p) : p \in Element}
EncodedScalars == {to_bytes(x) : x \in Fr}

\* The bytes of a case that was signed by sk and not tweaked.
Untouched == cas = orig /\ ntweaks = 0

\* C1: a signature made by sign or sign_deterministic verifies under the
\* verification key of the signing key, for every domain, key, message and
\* RNG output, both directly and through the key's bytes.
C1_SignVerify ==
    pc \in {"verified", "checked"} => result = Ok

C1_Witness ==
    /\ pc = "verified"
    /\ result = Ok
    /\ sk.sk # 0
    /\ sk.dom = "Binding"
    /\ cas.msg # <<>>
    /\ cas.sig # sign_deterministic(sk, cas.msg)

\* C6: the verification key of a randomized signing key has the same bytes
\* as the randomized verification key of the original signing key.
C6_RandomizeHomomorphism ==
    pc # "start" => sk.pk.bytes = pk.bytes

C6_Witness ==
    /\ nrand = MaxRandomize
    /\ sk.dom = "SpendAuth"
    /\ sk.pk.bytes = pk.bytes
    /\ pk.bytes # Zeros(EncLen)

\* What the verification equation is about, read from the bytes of a case.
KeyOf(c) == decompress(c.pk_bytes)
ROf(c) == decompress(r_bytes(c.sig))
ChallengeOf(c) == Challenge(r_bytes(c.sig), c.pk_bytes, c.msg)
CanonicalS(c) == s_bytes(c.sig) \in EncodedScalars
EquationHolds(c) ==
    ElMul(basepoint(c.dom), LEValue(s_bytes(c.sig)))
        = ElAdd(ROf(c).val, ElMul(KeyOf(c).val, ChallengeOf(c)))

\* C5: under a decoded verification key, verify returns Ok exactly when R
\* decompresses, s is a canonical scalar encoding and s*B = R + c*A with
\* c = HStar(R_bytes || A.bytes || msg); otherwise it returns
\* Err(InvalidSignature) and no other error.
C5_VerifyExact ==
    (pc = "checked" /\ KeyOf(cas).ok) =>
        result = IF ROf(cas).ok /\ CanonicalS(cas) /\ EquationHolds(cas)
                 THEN Ok
                 ELSE InvalidSignature

C5_Witness ==
    /\ pc = "checked"
    /\ KeyOf(cas).ok
    /\ KeyOf(cas).val # Identity
    /\ ChallengeOf(cas) # 0
    /\ cas.dom = "Binding"
    /\ result = Ok

SameMsg == cas.msg = orig.msg
SameKey == cas.pk_bytes = orig.pk_bytes
SameR == r_bytes(cas.sig) = r_bytes(orig.sig)
SameS == s_bytes(cas.sig) = s_bytes(orig.sig)

\* C7: replacing the s half of a valid signature by any other bytes, with
\* R, the key and the message kept, makes verification return
\* Err(InvalidSignature).
C7_TamperS ==
    (pc = "checked" /\ SameMsg /\ SameKey /\ SameR /\ ~SameS) =>
        result = InvalidSignature

\* The replaced s is another encoding of the same scalar modulo the order.
C7_Witness ==
    /\ pc = "checked"
    /\ SameMsg /\ SameKey /\ SameR /\ ~SameS
    /\ from_le_bytes_mod_order(s_bytes(cas.sig))
          = from_le_bytes_mod_order(s_bytes(orig.sig))
    /\ result = InvalidSignature

Compensated ==
    /\ KeyOf(cas).ok
    /\ ROf(cas).ok
    /\ ElSub(ROf(cas).val, ROf(orig).val)
          = ElSub(ElMul(KeyOf(orig).val, ChallengeOf(orig)),
                  ElMul(KeyOf(cas).val, ChallengeOf(cas)))

C8_IdentityKeyAccepts ==
    /\ pc = "checked"
    /\ SameS /\ SameKey /\ SameR /\ ~SameMsg
    /\ KeyOf(orig).val = Identity
    /\ ChallengeOf(cas) # ChallengeOf(orig)
    /\ result = Ok

(***************************************************************************)
(* Batch verification (benches/bench.rs: sigs_with_distinct_keys, then     *)
(* queue and verify).                                                      *)
(***************************************************************************)
\* Keys of the queued items, of both domains; one is the identity key.
BatchKeys ==
    {new_from_field("SpendAuth", 1), new_from_field("SpendAuth", 2),
     new_from_field("Binding", 0), new_from_field("Binding", 3)}
BatchMsg == <<1>>
Tampers == {"none", "s_wrong", "s_noncanonical", "R_undecodable", "vk_undecodable",
            "s_and_vk_undecodable"}
\* Bytes that are neither a point encoding nor a canonical scalar.
BadBytes ==
    CHOOSE b \in Bytes32 : ~decompress(b).ok /\ ~from_bytes_checked(b).ok

\* A signed triple, with one part replaced as the tamper says.
BatchCase(key, tamper) ==
    LET c == [dom |-> key.dom, msg |-> BatchMsg,
              sig |-> sign_deterministic(key, BatchMsg),
              pk_bytes |-> key.pk.bytes, is_valid |-> tamper = "none"]
        s1 == to_bytes(FrAdd(from_le_bytes_mod_order(s_bytes(c.sig)), 1))
    IN  CASE tamper = "none" -> c
          [] tamper = "s_wrong" -> [c EXCEPT !.sig = from_parts(r_bytes(c.sig), s1)]
          [] tamper = "s_noncanonical" ->
                [c EXCEPT !.sig = from_parts(r_bytes(c.sig), BadBytes)]
          [] tamper = "R_undecodable" ->
                [c EXCEPT !.sig = from_parts(BadBytes, s_bytes(c.sig))]
          [] tamper = "vk_undecodable" -> [c EXCEPT !.pk_bytes = BadBytes]
          [] tamper = "s_and_vk_undecodable" ->
                [c EXCEPT !.sig = from_parts(r_bytes(c.sig), BadBytes),
                          !.pk_bytes = BadBytes]

InitBatch ==
    /\ sk = NoSigningKey
    /\ pk = NoKey
    /\ nrand = 0
    /\ cas = NoCase
    /\ orig = NoCase
    /\ ntweaks = 0
    /\ result = None
    /\ signatures = <<>>
    /\ singles = <<>>
    /\ zs = <<>>
    /\ rng = <<>>
    /\ msm = NoMsm
    /\ conv = NoConv
    /\ hstar = NoHStar
    /\ pc = "queueing"

\* batch.queue((pk_bytes, sig, &msg)): the item is built, and its challenge
\* computed, now; singles keeps what verify_single says of a clone of it.
QueueCase(c) ==
    /\ signatures' = Append(signatures, ItemFrom(c.dom, c.pk_bytes, c.sig, c.msg))
    /\ singles' = Append(singles,
                         verify_single(ItemFrom(c.dom, c.pk_bytes, c.sig, c.msg)))

\* Verifier::queue of a freshly signed, possibly tampered triple.
Queue ==
    /\ pc = "queueing"
    /\ Len(signatures) < MaxQueue
    /\ \E key \in BatchKeys, tamper \in Tampers :
          /\ cas' = BatchCase(key, tamper)
          /\ QueueCase(cas')
    /\ orig' = cas'
    /\ UNCHANGED <<conv, hstar, keyVars, ntweaks, result, zs, rng, msm, pc>>

\* Verifier::verify(rng)
BatchVerify ==
    /\ pc \in {"queueing", "queued", "singled"}
    /\ \E words \in [1 .. 2 * Len(signatures) -> Word] :
          LET r == VerifierVerify(signatures, words)
          IN  /\ result' = r.result
              /\ zs' = r.zs
              /\ rng' = r.rng
              /\ msm' = IF r.returned_early THEN msm
                        ELSE [scalars |-> r.scalars, points |-> r.points,
                              check |-> r.check]
    /\ pc' = "batched"
    /\ UNCHANGED <<conv, hstar, keyVars, caseVars, signatures, singles>>

NextBatch == Queue \/ BatchVerify

SpecBatch == InitBatch /\ [][NextBatch]_vars

(***************************************************************************)
(* A SpendAuth signature taken as Binding-tagged bytes.                    *)
(***************************************************************************)
\* Signature::<Binding>::from(<[u8; 64]>::from(sig)) and
\* VerificationKeyBytes::<Binding>::from(<[u8; 32]>::from(pk_bytes))
RetagAsBinding(c) == [c EXCEPT !.dom = "Binding"]

InitDomain ==
    /\ \E s \in Fr : sk = new_from_field("SpendAuth", s)
    /\ pk = sk.pk
    /\ nrand = 0
    /\ \E rngBytes \in BytesOfLen(BonusLen), msg \in Msgs :
          /\ orig = SignatureCaseNew(sk, rngBytes, msg)
          /\ cas = RetagAsBinding(orig)
    /\ ntweaks = 0
    /\ result = None
    /\ signatures = <<>>
    /\ singles = <<>>
    /\ zs = <<>>
    /\ rng = <<>>
    /\ msm = NoMsm
    /\ conv = NoConv
    /\ hstar = NoHStar
    /\ pc = "signed"

\* Verifier::new, then queue of the case at hand.
QueueChecked ==
    /\ pc = "checked"
    /\ signatures = <<>>
    /\ QueueCase(cas)
    /\ pc' = "queued"
    /\ UNCHANGED <<conv, hstar, keyVars, caseVars, result, zs, rng, msm>>

\* The key bytes under their SpendAuth tag and under the Binding tag, each
\* hashed by a hasher in the same state; conv keeps what each hasher was fed.
HashTagged ==
    /\ pc = "signed"
    /\ conv' = [op |-> "hash",
                dom |-> orig.dom,
                bytes |-> VerificationKeyBytesFrom(orig.pk_bytes),
                hash |-> VerificationKeyBytesHash(orig.dom,
                             VerificationKeyBytesFrom(orig.pk_bytes)),
                other_dom |-> cas.dom,
                other_bytes |-> VerificationKeyBytesFrom(cas.pk_bytes),
                other_hash |-> VerificationKeyBytesHash(cas.dom,
                                   VerificationKeyBytesFrom(cas.pk_bytes))]
    /\ pc' = "hashed"
    /\ UNCHANGED <<hstar, keyVars, caseVars, result, batchVars>>

NextDomain == Check \/ QueueChecked \/ BatchVerify \/ HashTagged

SpecDomain == InitDomain /\ [][NextDomain]_vars

(***************************************************************************)
(* An item built from arbitrary bytes, kept while the message buffer it    *)
(* was built from is reused, then verified alone and in a batch.           *)
(***************************************************************************)
\* The caller overwrites the message buffer after the item was queued; an
\* item that kept a reference to the buffer would see the new contents.
ChangeBufferAliased ==
    /\ pc = "queued"
    /\ cas.msg = orig.msg
    /\ \E msg \in Msgs \ {cas.msg} :
          /\ cas' = [cas EXCEPT !.msg = msg]
          /\ signatures' = <<ItemFrom(cas.dom, cas.pk_bytes, cas.sig, msg)>>
    /\ UNCHANGED <<conv, hstar, keyVars, orig, ntweaks, result, singles, zs, rng, msm, pc>>

ChangeBuffer ==
    /\ pc = "queued"
    /\ cas.msg = orig.msg
    /\ \E msg \in Msgs \ {cas.msg} :
          cas' = [cas EXCEPT !.msg = msg]
    /\ UNCHANGED <<conv, hstar, keyVars, orig, ntweaks, result, batchVars, pc>>

\* item.clone().verify_single() of the queued item.
ItemVerifySingle ==
    /\ pc = "queued"
    /\ result' = verify_single(signatures[1])
    /\ pc' = "singled"
    /\ UNCHANGED <<conv, hstar, keyVars, caseVars, batchVars>>

NextItem == Check \/ QueueChecked \/ ChangeBuffer \/ ItemVerifySingle \/ BatchVerify

SpecItem == InitVerify /\ [][NextItem]_vars

(***************************************************************************)
(* Conversions between bytes and keys or signatures (tests/bincode.rs).    *)
(***************************************************************************)
\* What a conversion leaves behind: its error, and the bytes its output
\* converts back to.
Converted(c) ==
    /\ conv' = c
    /\ result' = c.err.kind
    /\ pc' = "converted"
    /\ UNCHANGED <<hstar, nrand, caseVars, batchVars>>

\* SigningKey::try_from(bytes) and bincode::deserialize(&bytes), each
\* encoded again.
ConvertSigningKey ==
    /\ pc = "start"
    /\ \E D \in Domains, bytes \in Bytes32 :
          LET r == SigningKeyTryFrom(D, bytes)
              d == SigningKeyDeserialize(D, bytes)
          IN  /\ Converted([op |-> "SigningKey", dom |-> D, input |-> bytes,
                            out |-> IF r.ok THEN SigningKeyToBytes(r.val) ELSE <<>>,
                            r |-> <<>>, s |-> <<>>, err |-> ErrorOf(r.err),
                            serde_ok |-> d.ok,
                            serde_out |-> IF d.ok THEN SigningKeySerialize(d.val)
                                          ELSE <<>>])
              /\ sk' = IF r.ok THEN r.val ELSE sk
              /\ pk' = IF r.ok THEN r.val.pk ELSE pk

\* VerificationKey::try_from(bytes) and bincode::deserialize(&bytes), each
\* encoded again.
ConvertVerificationKey ==
    /\ pc = "start"
    /\ \E D \in Domains, bytes \in Bytes32 :
          LET r == VerificationKeyTryFromArray(bytes)
              d == VerificationKeyDeserialize(bytes)
          IN  /\ Converted([op |-> "VerificationKey", dom |-> D, input |-> bytes,
                            out |-> IF r.ok THEN VerificationKeyToBytes(r.val) ELSE <<>>,
                            r |-> <<>>, s |-> <<>>, err |-> ErrorOf(r.err),
                            serde_ok |-> d.ok,
                            serde_out |-> IF d.ok THEN VerificationKeySerialize(d.val)
                                          ELSE <<>>])
              /\ pk' = IF r.ok THEN r.val ELSE pk
              /\ UNCHANGED sk

\* VerificationKeyBytes::from(bytes) and bincode::deserialize(&bytes), each
\* turned into bytes again.
ConvertVerificationKeyBytes ==
    /\ pc = "start"
    /\ \E D \in Domains, bytes \in Bytes32 :
          Converted([op |-> "VerificationKeyBytes", dom |-> D, input |-> bytes,
                     out |-> VerificationKeyBytesInto(VerificationKeyBytesFrom(bytes)),
                     r |-> <<>>, s |-> <<>>, err |-> ErrorOf(Ok),
                     serde_ok |-> TRUE,
                     serde_out |-> VerificationKeyBytesSerialize(
                                       VerificationKeyBytesDeserialize(bytes))])
    /\ UNCHANGED <<sk, pk>>

\* Signature::from(bytes), its halves, and its bytes again.
ConvertSignature ==
    /\ pc = "start"
    /\ \E D \in Domains, bytes \in Bytes64 :
          LET sig == SignatureFrom(bytes)
          IN  Converted([op |-> "Signature", dom |-> D, input |-> bytes,
                         out |-> SignatureToBytes(sig),
                         r |-> r_bytes(sig), s |-> s_bytes(sig), err |-> ErrorOf(Ok),
                         serde_ok |-> FALSE, serde_out |-> <<>>])
    /\ UNCHANGED <<sk, pk>>

\* SigningKey::try_from(&bytes[..])
ConvertSigningKeySlice ==
    /\ pc = "start"
    /\ \E D \in Domains, bytes \in Slices :
          LET r == SigningKeyTryFromSlice(D, bytes)
          IN  /\ Converted([op |-> "SigningKey&[u8]", dom |-> D, input |-> bytes,
                            out |-> IF r.ok THEN SigningKeyToBytes(r.val) ELSE <<>>,
                            r |-> <<>>, s |-> <<>>, err |-> r.err,
                            serde_ok |-> FALSE, serde_out |-> <<>>])
              /\ sk' = IF r.ok THEN r.val ELSE sk
              /\ pk' = IF r.ok THEN r.val.pk ELSE pk

\* VerificationKeyBytes::try_from(&bytes[..])
ConvertVerificationKeyBytesSlice ==
    /\ pc = "start"
    /\ \E D \in Domains, bytes \in Slices :
          LET r == VerificationKeyBytesTryFromSlice(bytes)
          IN  Converted([op |-> "VerificationKeyBytes&[u8]", dom |-> D, input |-> bytes,
                         out |-> IF r.ok THEN VerificationKeyBytesInto(r.val) ELSE <<>>,
                         r |-> <<>>, s |-> <<>>, err |-> r.err,
                         serde_ok |-> FALSE, serde_out |-> <<>>])
    /\ UNCHANGED <<sk, pk>>

\* VerificationKey::try_from(&bytes[..])
ConvertVerificationKeySlice ==
    /\ pc = "start"
    /\ \E D \in Domains, bytes \in Slices :
          LET r == VerificationKeyTryFromSlice(bytes)
          IN  /\ Converted([op |-> "VerificationKey&[u8]", dom |-> D, input |-> bytes,
                            out |-> IF r.ok THEN VerificationKeyToBytes(r.val) ELSE <<>>,
                            r |-> <<>>, s |-> <<>>, err |-> r.err,
                            serde_ok |-> FALSE, serde_out |-> <<>>])
              /\ pk' = IF r.ok THEN r.val ELSE pk
              /\ UNCHANGED sk

\* Signature::try_from(&bytes[..])
ConvertSignatureSlice ==
    /\ pc = "start"
    /\ \E D \in Domains, bytes \in Slices :
          LET r == SignatureTryFromSlice(bytes)
          IN  Converted([op |-> "Signature&[u8]", dom |-> D, input |-> bytes,
                         out |-> IF r.ok THEN SignatureToBytes(r.val) ELSE <<>>,
                         r |-> IF r.ok THEN r_bytes(r.val) ELSE <<>>,
                         s |-> IF r.ok THEN s_bytes(r.val) ELSE <<>>,
                         err |-> r.err,
                         serde_ok |-> FALSE, serde_out |-> <<>>])
    /\ UNCHANGED <<sk, pk>>

NextConvert ==
    \/ ConvertSigningKey \/ ConvertVerificationKey
    \/ ConvertVerificationKeyBytes \/ ConvertSignature
    \/ ConvertSigningKeySlice \/ ConvertVerificationKeyBytesSlice
    \/ ConvertVerificationKeySlice \/ ConvertSignatureSlice

SpecConvert == Init /\ [][NextConvert]_vars

(***************************************************************************)
(* One HStar hasher, updated and finalized in any order.                   *)
(***************************************************************************)
InitHash ==
    /\ sk = NoSigningKey
    /\ pk = NoKey
    /\ nrand = 0
    /\ cas = NoCase
    /\ orig = NoCase
    /\ ntweaks = 0
    /\ result = None
    /\ signatures = <<>>
    /\ singles = <<>>
    /\ zs = <<>>
    /\ rng = <<>>
    /\ msm = NoMsm
    /\ conv = NoConv
    /\ hstar = NoHStar
    /\ pc = "hashing"

\* hasher.update(data)
HashUpdate ==
    /\ pc = "hashing"
    /\ hstar.updates < MaxUpdates
    /\ \E n \in 0 .. (MaxAbsorbed - Len(hstar.absorbed)) :
          \E data \in BytesOfLen(n) :
             hstar' = [hstar EXCEPT !.state = HStarUpdate(hstar.state, data),
                                    !.absorbed = hstar.absorbed \o data,
                                    !.updates = hstar.updates + 1]
    /\ UNCHANGED <<conv, keyVars, caseVars, result, batchVars, pc>>

\* hasher.finalize()
HashFinalizeResets ==
    /\ pc = "hashing"
    /\ hstar.finalizes < MaxFinalizes
    /\ hstar' = [hstar EXCEPT !.state = HStarDefault,
                               !.out = HStarFinalize(hstar.state),
                               !.at = hstar.absorbed,
                               !.finalizes = hstar.finalizes + 1]
    /\ UNCHANGED <<conv, keyVars, caseVars, result, batchVars, pc>>

HashFinalize ==
    /\ pc = "hashing"
    /\ hstar.finalizes < MaxFinalizes
    /\ hstar' = [hstar EXCEPT !.out = HStarFinalize(hstar.state),
                               !.at = hstar.absorbed,
                               !.finalizes = hstar.finalizes + 1]
    /\ UNCHANGED <<conv, keyVars, caseVars, result, batchVars, pc>>

NextHash == HashUpdate \/ HashFinalize

SpecHash == InitHash /\ [][NextHash]_vars

(***************************************************************************)
(* Verification keys: the ways to make one, and comparing two of them.     *)
(***************************************************************************)
\* A verification key was made and is held in pk.
HasKey ==
    /\ pc \in {"converted", "compared"}
    /\ result = Ok

\* VerificationKey::from(&s)
KeyFromScalar ==
    /\ pc = "start"
    /\ \E D \in Domains, s \in Fr :
          LET vk == VerificationKeyFrom(D, s)
          IN  /\ Converted([op |-> "VerificationKey&Fr", dom |-> D,
                            input |-> to_bytes(s),
                            out |-> VerificationKeyToBytes(vk),
                            r |-> <<>>, s |-> <<>>, err |-> NoError,
                            serde_ok |-> FALSE, serde_out |-> <<>>])
              /\ pk' = vk
              /\ UNCHANGED sk

\* pk.randomize(&r), SpendAuth only.
KeyRandomize ==
    /\ pc = "converted"
    /\ result = Ok
    /\ conv.dom = "SpendAuth"
    /\ nrand < MaxRandomize
    /\ \E r \in Fr : pk' = VerificationKeyRandomize(pk, r)
    /\ nrand' = nrand + 1
    /\ UNCHANGED <<conv, hstar, sk, caseVars, result, batchVars, pc>>

\* The keys of domain D that pk is compared with: made from bytes, from a
\* scalar, and by randomizing.
OtherKeys(D) ==
    {VerificationKeyTryFromArray(bytes).val :
        bytes \in {b \in Bytes32 : VerificationKeyTryFromArray(b).ok}}
    \cup {VerificationKeyFrom(D, s) : s \in Fr}
    \cup IF D = "SpendAuth"
         THEN {VerificationKeyRandomize(VerificationKeyFrom(D, s), r) :
                  s \in Fr, r \in Fr}
         ELSE {}

\* pk == other, pk.cmp(&other), and pk and other hashed by two hashers in
\* the same state.
KeyCompare ==
    /\ pc = "converted"
    /\ result = Ok
    /\ \E other \in OtherKeys(conv.dom) :
          conv' = [op |-> "compare", dom |-> conv.dom, other |-> other,
                   eq |-> VerificationKeyEq(pk, other),
                   cmp |-> VerificationKeyCmp(pk, other),
                   hash |-> VerificationKeyHash(conv.dom, pk),
                   other_hash |-> VerificationKeyHash(conv.dom, other)]
    /\ pc' = "compared"
    /\ UNCHANGED <<hstar, keyVars, caseVars, result, batchVars>>

NextKeys ==
    \/ ConvertVerificationKey \/ ConvertVerificationKeySlice
    \/ KeyFromScalar \/ KeyRandomize \/ KeyCompare

SpecKeys == Init /\ [][NextKeys]_vars

(***************************************************************************)
(* Properties of batch verification.                                       *)
(***************************************************************************)
Indices == 1 .. Len(signatures)
Decodes(item) ==
    /\ item.sig \in {from_parts(r, x) : r \in EncodedPoints, x \in EncodedScalars}
    /\ item.vk_bytes \in EncodedPoints

\* R + c*A - s*B of a decodable item: the identity iff the item is valid.
Residual(item) ==
    ElSub(ElAdd(decompress(r_bytes(item.sig)).val,
                ElMul(decompress(item.vk_bytes).val, item.c)),
          ElMul(basepoint(item.dom), LEValue(s_bytes(item.sig))))

RECURSIVE BlindedSum(_, _)
BlindedSum(items, z) ==
    IF Len(items) = 0 THEN Identity
    ELSE ElAdd(ElMul(Residual(Head(items)), Head(z)), BlindedSum(Tail(items), Tail(z)))

\* C2: a batch in which every item is individually valid verifies, for any
\* length and mix of domains and whatever the RNG yields.
C2_BatchCompleteness ==
    (pc = "batched" /\ \A i \in Indices : singles[i] = Ok) => result = Ok

C2_Witness ==
    /\ pc = "batched"
    /\ Len(signatures) = MaxQueue
    /\ \A i \in Indices : singles[i] = Ok
    /\ {signatures[i].dom : i \in Indices} = Domains
    /\ \A i \in Indices : zs[i] # 0
    /\ \E i \in Indices : zs[i] # zs[1]
    /\ result = Ok

C4_OnlyInvalidSignature ==
    pc = "batched" => result \in {Ok, InvalidSignature}

\* C10: verifying a batch in which nothing was queued returns Ok.
C10_EmptyBatch ==
    (pc = "batched" /\ Len(signatures) = 0) => result = Ok

C10_Witness ==
    /\ pc = "batched"
    /\ signatures = <<>>
    /\ zs = <<>>
    /\ result = Ok

\* The sum of z_i * s_i over the items of domain D.
RECURSIVE SumZS(_, _, _)
SumZS(items, z, D) ==
    IF Len(items) = 0 THEN 0
    ELSE FrAdd(IF Head(items).dom = D
               THEN FrMul(Head(z), LEValue(s_bytes(Head(items).sig)))
               ELSE 0,
               SumZS(Tail(items), Tail(z), D))

\* The sum of (z_i * c_i) * A_i + z_i * R_i over the items.
RECURSIVE SumKeysAndRs(_, _)
SumKeysAndRs(items, z) ==
    IF Len(items) = 0 THEN Identity
    ELSE ElAdd(ElAdd(ElMul(decompress(Head(items).vk_bytes).val,
                           FrMul(Head(z), Head(items).c)),
                     ElMul(decompress(r_bytes(Head(items).sig)).val, Head(z))),
               SumKeysAndRs(Tail(items), Tail(z)))

\* The sum over the positions k of scalars[k] * points[k].
RECURSIVE DotUpTo(_, _, _)
DotUpTo(k, scalars, points) ==
    IF k = 0 THEN Identity
    ELSE ElAdd(DotUpTo(k - 1, scalars, points), ElMul(points[k], scalars[k]))

\* C21: with n items, all decoded, the multiscalar multiplication gets 2 + 2n
\* scalars and as many points: the negated sums of z_i * s_i of the SpendAuth
\* and of the Binding items against the two basepoints, then z_i * c_i against
\* A_i, then z_i against R_i; the value tested is the sum of the products at
\* equal positions, which is
\* [-sum_SpendAuth z_i*s_i]B_SpendAuth + [-sum_Binding z_i*s_i]B_Binding
\* + sum (z_i*c_i)*A_i + sum z_i*R_i, and the result is Ok iff it is the
\* identity.
C21_EquationAlignment ==
    (pc = "batched" /\ \A i \in Indices : Decodes(signatures[i])) =>
        LET n == Len(signatures)
        IN  /\ Len(zs) = n
            /\ Len(msm.scalars) = 2 + 2 * n
            /\ Len(msm.points) = 2 + 2 * n
            /\ msm.points[1] = basepoint("SpendAuth")
            /\ msm.points[2] = basepoint("Binding")
            /\ msm.scalars[1] = FrNeg(SumZS(signatures, zs, "SpendAuth"))
            /\ msm.scalars[2] = FrNeg(SumZS(signatures, zs, "Binding"))
            /\ \A i \in 1 .. n :
                  /\ msm.scalars[2 + i] = FrMul(zs[i], signatures[i].c)
                  /\ msm.points[2 + i] = decompress(signatures[i].vk_bytes).val
                  /\ msm.scalars[2 + n + i] = zs[i]
                  /\ msm.points[2 + n + i] = decompress(r_bytes(signatures[i].sig)).val
            /\ msm.check = DotUpTo(2 + 2 * n, msm.scalars, msm.points)
            /\ msm.check =
                  ElAdd(ElAdd(ElMul(basepoint("SpendAuth"),
                                    FrNeg(SumZS(signatures, zs, "SpendAuth"))),
                              ElMul(basepoint("Binding"),
                                    FrNeg(SumZS(signatures, zs, "Binding")))),
                        SumKeysAndRs(signatures, zs))
            /\ result = IF msm.check = Identity THEN Ok ELSE InvalidSignature

C21_Witness ==
    /\ pc = "batched"
    /\ Len(signatures) = MaxQueue
    /\ \A i \in Indices : Decodes(signatures[i]) /\ zs[i] # 0
    /\ signatures[1].dom = "SpendAuth"
    /\ signatures[MaxQueue].dom = "Binding"
    /\ msm.scalars[1] # 0
    /\ msm.scalars[2] # 0
    /\ msm.scalars[1] # msm.scalars[2]
    /\ msm.points[3] # msm.points[3 + MaxQueue]
    /\ msm.check # Identity
    /\ result = InvalidSignature

\* C20: a batch holding exactly one item verifies only if that item is
\* individually valid, also when the blinding scalar drawn for it is zero.
C20_SingleItemZeroBlinding ==
    (pc = "batched" /\ Len(signatures) = 1 /\ result = Ok) => singles[1] = Ok

C11_VerifySingleEquivalence ==
    /\ pc \in {"queued", "singled"} => singles[1] = CaseResult(orig)
    /\ pc = "singled" => result = CaseResult(orig)

C11_Witness ==
    /\ pc = "singled"
    /\ cas.msg # orig.msg
    /\ orig.dom = "Binding"
    /\ KeyOf(orig).val # Identity
    /\ ChallengeOf(orig) # Challenge(r_bytes(orig.sig), orig.pk_bytes, <<>>)
    /\ CaseResult(orig) = Ok
    /\ CaseResult(cas) = InvalidSignature
    /\ result = Ok

\* C12: the challenge stored in a queued item is HStar(R || vk_bytes || msg)
\* of the message as it was when the item was built; overwriting the message
\* buffer, verify_single of a clone and Verifier::verify leave the item as it
\* was, and their outcomes are those of the message at queue time.
C12_QueueTimeHashing ==
    pc \in {"queued", "singled", "batched"} =>
        /\ Len(signatures) = 1
        /\ signatures[1].c = ChallengeOf(orig)
        /\ signatures[1].sig = orig.sig
        /\ signatures[1].vk_bytes = orig.pk_bytes
        /\ pc = "singled" => result = CaseResult(orig)
        /\ pc = "batched" =>
              (result = Ok <=> /\ Decodes(signatures[1])
                               /\ (zs[1] = 0 \/ CaseResult(orig) = Ok))

C12_Witness ==
    /\ pc = "batched"
    /\ cas.msg # orig.msg
    /\ ChallengeOf(cas) # ChallengeOf(orig)
    /\ KeyOf(orig).val # Identity
    /\ CaseResult(orig) = Ok
    /\ CaseResult(cas) = InvalidSignature
    /\ zs[1] # 0
    /\ result = Ok

\* C13: every signing key made by new, new_from_field, From<Fr>, TryFrom of
\* an array or a slice, or by any number of randomizations, has
\* pk.point = basepoint(D) * sk and pk.bytes = compress(pk.point), and
\* signing does not change the key.
C13_KeyInvariant ==
    /\ [](pc # "start" =>
            /\ sk.pk.point = ElMul(basepoint(sk.dom), sk.sk)
            /\ sk.pk.bytes = compress(sk.pk.point)
            /\ decompress(sk.pk.bytes) = [ok |-> TRUE, val |-> sk.pk.point])
    /\ [][pc = "keyed" /\ pc' = "signed" => sk' = sk]_vars

C13_Witness ==
    /\ pc = "signed"
    /\ nrand = MaxRandomize
    /\ sk.sk = 2
    /\ sk.pk.point = ElMul(basepoint(sk.dom), sk.sk)
    /\ sk.pk.point # basepoint(sk.dom)
    /\ sk.pk.bytes = compress(sk.pk.point)

C15_IdentityBindingKey ==
    (pc \in {"verified", "checked"} /\ sk.dom = "Binding" /\ sk.sk = 0) =>
        /\ cas.pk_bytes = compress(Identity)
        /\ VerificationKeyTryFrom(cas.pk_bytes).ok
        /\ is_identity(VerificationKeyTryFrom(cas.pk_bytes).val.point)
        /\ result = Ok

C15_Witness ==
    /\ pc = "checked"
    /\ sk.dom = "Binding" /\ sk.sk = 0
    /\ cas.pk_bytes = Zeros(EncLen)
    /\ cas.msg # <<>>
    /\ s_bytes(cas.sig) # Zeros(EncLen)
    /\ result = Ok

\* The 32-byte array of which every byte is the largest ([0xff; 32]).
AllOnes == [i \in 1 .. EncLen |-> ByteRange - 1]

\* C16: SigningKey::try_from of a 32-byte array fails with
\* MalformedSigningKey exactly when the array is not the canonical encoding
\* of a scalar (as [0xff; 32] is not), and otherwise gives a key whose
\* to_bytes is the array; the serde decoding succeeds on the same arrays and
\* encodes back to the array.
C16_SigningKeyRoundTrip ==
    (pc = "converted" /\ conv.op = "SigningKey") =>
        IF LEValue(conv.input) < FrModulus
        THEN /\ conv.err = ErrorOf(Ok)
             /\ conv.out = conv.input
             /\ sk.sk = LEValue(conv.input)
             /\ conv.serde_ok
             /\ conv.serde_out = conv.input
        ELSE /\ conv.err = ErrorOf(MalformedSigningKey)
             /\ ~conv.serde_ok

C16_Witness ==
    /\ pc = "converted"
    /\ conv.op = "SigningKey"
    /\ conv.input = AllOnes
    /\ from_le_bytes_mod_order(conv.input) # 0
    /\ conv.err.kind = MalformedSigningKey

\* C17: VerificationKey::try_from of a 32-byte array fails with
\* MalformedVerificationKey when the array is not the encoding of a point, and
\* otherwise gives a key whose to_bytes is the array; the serde decoding
\* succeeds on the same arrays and encodes back to the array.
C17_VerificationKeyRoundTrip ==
    (pc = "converted" /\ conv.op = "VerificationKey") =>
        IF conv.input \in EncodedPoints
        THEN /\ conv.err = ErrorOf(Ok)
             /\ conv.out = conv.input
             /\ pk.bytes = conv.input
             /\ compress(pk.point) = conv.input
             /\ conv.serde_ok
             /\ conv.serde_out = conv.input
        ELSE /\ conv.err = ErrorOf(MalformedVerificationKey)
             /\ ~conv.serde_ok

C17_Witness ==
    /\ pc = "converted"
    /\ conv.op = "VerificationKey"
    /\ conv.input \in EncodedPoints
    /\ conv.input # Zeros(EncLen)
    /\ conv.out = conv.input
    /\ conv.serde_out = conv.input

\* C18: VerificationKeyBytes::from of any 32-byte array and Signature::from
\* of any 64-byte array succeed and convert back to the same array, whether or
\* not the bytes decode; the signature's R is its first half and its s the
\* second half.
C18_RefinementRoundTrip ==
    /\ (pc = "converted" /\ conv.op = "VerificationKeyBytes") =>
          /\ conv.err = ErrorOf(Ok)
          /\ conv.out = conv.input
          /\ conv.serde_ok
          /\ conv.serde_out = conv.input
    /\ (pc = "converted" /\ conv.op = "Signature") =>
          /\ conv.err = ErrorOf(Ok)
          /\ conv.out = conv.input
          /\ conv.r = [i \in 1 .. EncLen |-> conv.input[i]]
          /\ conv.s = [i \in 1 .. EncLen |-> conv.input[EncLen + i]]

\* A signature whose halves decode to nothing is still constructed.
C18_Witness ==
    /\ pc = "converted"
    /\ conv.op = "Signature"
    /\ ~decompress(conv.r).ok
    /\ ~from_bytes_checked(conv.s).ok
    /\ conv.r # conv.s
    /\ conv.out = conv.input

\* The result of a slice conversion, given the fixed length and the result
\* of the array conversion.
SliceResult(expected, kind, out) ==
    IF Len(conv.input) # expected
    THEN /\ conv.err = WrongSliceLength(expected, Len(conv.input))
         /\ conv.out = <<>>
    ELSE /\ conv.err = ErrorOf(kind)
         /\ conv.out = out

\* C19: converting a slice to a SigningKey, VerificationKeyBytes or
\* VerificationKey (32 bytes) or to a Signature (64 bytes) returns
\* WrongSliceLength with the fixed length and the slice's length whenever the
\* two differ, whatever the bytes are, and otherwise what the conversion of
\* the array returns.
C19_SliceConversions ==
    pc = "converted" =>
        /\ conv.op = "SigningKey&[u8]" =>
              SliceResult(EncLen,
                          IF conv.input \in EncodedScalars THEN Ok
                          ELSE MalformedSigningKey,
                          IF conv.input \in EncodedScalars THEN conv.input ELSE <<>>)
        /\ conv.op = "VerificationKeyBytes&[u8]" =>
              SliceResult(EncLen, Ok, conv.input)
        /\ conv.op = "VerificationKey&[u8]" =>
              SliceResult(EncLen,
                          IF conv.input \in EncodedPoints THEN Ok
                          ELSE MalformedVerificationKey,
                          IF conv.input \in EncodedPoints THEN conv.input ELSE <<>>)
        /\ conv.op = "Signature&[u8]" =>
              /\ SliceResult(2 * EncLen, Ok, conv.input)
              /\ Len(conv.input) = 2 * EncLen =>
                    conv.r \o conv.s = conv.input /\ Len(conv.r) = EncLen

\* A slice of the length of a key handed to the signature conversion.
C19_Witness ==
    /\ pc = "converted"
    /\ conv.op = "Signature&[u8]"
    /\ Len(conv.input) = EncLen
    /\ conv.err = WrongSliceLength(2 * EncLen, EncLen)

\* C22: sign takes 48 bytes from the RNG as bonus_randomness and
\* sign_deterministic takes none and uses 48 zero bytes; in both the
\* signature is R_bytes followed by s_bytes with
\* nonce = HStar(sk_bytes || bonus_randomness || pk_bytes || msg),
\* R = basepoint(D) * nonce, c = HStar(R_bytes || pk_bytes || msg) and
\* s = nonce + c * sk, where c is the challenge the verifier and the batch
\* item compute; with zero bytes from the RNG sign gives what
\* sign_deterministic gives.
C22_SignatureConstruction ==
    (pc = "signed" /\ conv.op \in {"sign", "sign_deterministic"}) =>
        LET bonus == IF conv.op = "sign" THEN conv.input ELSE Zeros(BonusLen)
            sk_bytes == to_bytes(sk.sk)
            pk_bytes == sk.pk.bytes
            nonce == HStarFinalize(HStarUpdate(HStarDefault,
                         sk_bytes \o bonus \o pk_bytes \o cas.msg))
            Rb == compress(ElMul(basepoint(sk.dom), nonce))
            c == HStarFinalize(HStarUpdate(HStarDefault, Rb \o pk_bytes \o cas.msg))
            s == FrAdd(nonce, FrMul(c, sk.sk))
        IN  /\ Len(conv.input) = IF conv.op = "sign" THEN BonusLen ELSE 0
            /\ Len(sk_bytes) = EncLen /\ LEValue(sk_bytes) = sk.sk
            /\ cas.sig = Rb \o to_bytes(s)
            /\ c = Challenge(r_bytes(cas.sig), cas.pk_bytes, cas.msg)
            /\ c = ItemFrom(cas.dom, cas.pk_bytes, cas.sig, cas.msg).c
            /\ bonus = Zeros(BonusLen) => cas.sig = sign_deterministic(sk, cas.msg)

\* sign, given zero bytes by the RNG, on a key and message for which the
\* bonus bytes matter.
C22_Witness ==
    /\ pc = "signed"
    /\ conv.op = "sign"
    /\ conv.input = Zeros(BonusLen)
    /\ sk.sk # 0
    /\ cas.msg # <<>>
    /\ cas.sig = sign_deterministic(sk, cas.msg)
    /\ \E rngBytes \in BytesOfLen(BonusLen) : sign(sk, rngBytes, cas.msg) # cas.sig

\* C23: every VerificationKey made by try_from (of an array, of
\* VerificationKeyBytes, of a slice), from a scalar, or by any number of
\* randomizations has bytes = compress(point); ==, cmp and the data fed to a
\* hasher are those of the bytes, and two keys are equal, compare Equal and
\* feed the same data exactly when their points are equal.
C23_VerificationKeyInvariant ==
    /\ HasKey =>
          /\ pk.bytes = compress(pk.point)
          /\ decompress(pk.bytes) = [ok |-> TRUE, val |-> pk.point]
    /\ pc = "compared" =>
          LET other == conv.other
          IN  /\ other.bytes = compress(other.point)
              /\ conv.eq <=> (pk.point = other.point)
              /\ (conv.cmp = 0) <=> (pk.point = other.point)
              /\ (conv.hash = conv.other_hash) <=> (pk.point = other.point)
              /\ conv.eq <=> (pk.bytes = other.bytes)
              /\ conv.cmp = -ArrayCmp(other.bytes, pk.bytes)
              /\ conv.hash = <<EncLen>> \o pk.bytes

\* A key randomized MaxRandomize times, away from the identity, compared
\* with a key of the same point.
C23_Witness ==
    /\ pc = "compared"
    /\ nrand = MaxRandomize
    /\ ~is_identity(pk.point)
    /\ conv.other.point = pk.point
    /\ conv.eq
    /\ conv.cmp = 0
    /\ conv.hash = conv.other_hash

\* C24: Verifier::verify takes two words from the RNG for each item it
\* decodes, in queue order, and the item's blinding scalar is
\* lo + (hi << 64) with lo the first of the two words and hi the second; the
\* sum stays below 2^128 and is not reduced, each pair of words serves one
\* item only, and the scalars are those of this call's words alone.
C24_BlindingScalars ==
    pc = "batched" =>
        LET n == Len(signatures)
            W == Pow(2, WordBits)
        IN  /\ Len(zs) <= n
            /\ Len(rng) = 2 * Len(zs)
            /\ result = Ok => Len(zs) = n
            /\ \A i \in 1 .. Len(zs) :
                  /\ rng[2 * i - 1] \in Word /\ rng[2 * i] \in Word
                  /\ zs[i] = rng[2 * i - 1] + rng[2 * i] * W
                  /\ zs[i] < W * W
                  /\ zs[i] \in Fr
            /\ (Len(zs) = n /\ n > 0) =>
                  \A i \in 1 .. n :
                     /\ msm.scalars[2 + n + i] = zs[i]
                     /\ msm.points[2 + n + i] =
                            decompress(r_bytes(signatures[i].sig)).val
                     /\ msm.scalars[2 + i] = FrMul(zs[i], signatures[i].c)

\* A full queue whose items got different blinding scalars, the first from
\* two different words.
C24_Witness ==
    /\ pc = "batched"
    /\ Len(signatures) = MaxQueue
    /\ Len(zs) = MaxQueue
    /\ rng[1] < rng[2]
    /\ zs[1] = Pow(2, WordBits) * rng[2] + rng[1]
    /\ zs[1] # zs[2]
    /\ result = Ok

\* C25: VerificationKeyBytes<D> feeds its 32 bytes and then its domain tag
\* to the hasher, so a SpendAuth-tagged and a Binding-tagged value holding
\* the same bytes feed it different data.
C25_TaggedHashDistinct ==
    (pc = "hashed" /\ conv.dom # conv.other_dom /\ conv.bytes = conv.other_bytes)
        => conv.hash # conv.other_hash

C27_RandomizedSignVerify ==
    pc = "verified_pk" =>
        /\ sk.dom = "SpendAuth"
        /\ result = Ok
        /\ pk.point = ElMul(basepoint("SpendAuth"), sk.sk)
        /\ Challenge(r_bytes(cas.sig), pk.bytes, cas.msg)
              = Challenge(r_bytes(cas.sig), cas.pk_bytes, cas.msg)

\* MaxRandomize randomizations, then a randomized signature on a nonempty
\* message verified under the randomized verification key.
C27_Witness ==
    /\ pc = "verified_pk"
    /\ nrand = MaxRandomize
    /\ conv.op = "sign"
    /\ conv.input # Zeros(BonusLen)
    /\ cas.msg # <<>>
    /\ ~is_identity(pk.point)
    /\ result = Ok

\* C28: for a batch of exactly one item, Verifier::verify returns Ok exactly
\* when Item::verify_single of that item returns Ok, provided the blinding
\* scalar drawn for the item is not zero (none is drawn for an item that
\* does not decode, which both reject).
C28_SingleItemBatch ==
    (pc = "batched" /\ Len(signatures) = 1) =>
        /\ Len(zs) = 0 => (result # Ok /\ singles[1] # Ok)
        /\ (Len(zs) = 1 /\ zs[1] # 0) => (result = Ok <=> singles[1] = Ok)

\* One valid item whose blinding scalar is neither 0 nor 1, accepted by
\* both.
C28_Witness ==
    /\ pc = "batched"
    /\ Len(signatures) = 1
    /\ Len(zs) = 1
    /\ zs[1] > 1
    /\ signatures[1].c # 0
    /\ ~is_identity(decompress(signatures[1].vk_bytes).val)
    /\ singles[1] = Ok
    /\ result = Ok

\* The signature of an item decodes: s is canonical and R is a point.
SigDecodes(item) ==
    /\ s_bytes(item.sig) \in EncodedScalars
    /\ r_bytes(item.sig) \in EncodedPoints

====
